---- MODULE Spec2Model ----
(***************************************************************************)
(* Model of the calendar day grid (CalendarGrid, ZoomControls,             *)
(* TimeSpanLayer): zoom state, scroll container, deferred scroll           *)
(* corrections, visible range, month/week segments and span lanes.         *)
(*                                                                         *)
(* Lengths are whole CSS pixels.  A fractional day index is kept as an     *)
(* exact fraction [n, d]; a value assigned to scrollLeft is a fraction     *)
(* that the scroll container stores as a whole pixel inside its range.     *)
(***************************************************************************)
EXTENDS Integers, Sequences, FiniteSets, TLC

VARIABLES
    pxPerDay,        \* App state: useState(100)
    mounted,         \* CalendarGrid is rendered (showCalendar)
    width,           \* scroll container clientWidth
    scrollLeft,      \* scroll container scrollLeft
    prevPx,          \* prevPxPerDayRef.current
    isInitialMount,  \* isInitialMountRef.current
    pending,         \* pendingScrollAdjustmentRef.current
    rafQueue,        \* requestAnimationFrame callbacks not yet run
    frameLeft,       \* callbacks of the running frame still to run
    scrollDirty,     \* a 'scroll' event is due at the next frame
    visibleRange,    \* useState({ start: 0, end: 30 })
    nEvents,         \* number of user/host events so far (bounded)
    lastEv,          \* history: the last user/host event
    lastWrite,       \* history: the last assignment to scrollLeft by the code
    initWrites,      \* history: today-positioning writes since the last mount
    anchor,          \* history: centre day index before the first zoom change of a burst
    \* the zoom-anchor computation applied on its own
    rtScroll0,       \* scroll offset before the first application
    rtWidth,         \* container width
    rtScroll,        \* scroll offset held now
    rtStep,          \* applications done so far
    \* the month and week segments of a timeline
    segCal,          \* the calendar: first day of the timeline, weekday of 1 January, leap year
    segLen,          \* dates.length
    segKind,         \* "month" for monthSegments, "week" for weekSegments
    segIndex,        \* index of the next date of dates.forEach
    currentKey,      \* currentMonth / currentWeek
    segmentStart,    \* segmentStart
    segments,        \* segments pushed so far
    segDone,         \* the useMemo callback has returned
    \* TimeSpanLayer
    timeSpans,       \* prop timeSpans = getTimeSpans()
    tsVisibleRange,  \* prop visibleRange
    tsPxPerDay,      \* prop pxPerDay
    visibleTimeSpans,\* useMemo result of the last render
    tsRendered,      \* TimeSpanLayer has rendered
    tsMaxRows,       \* last value passed to onMaxRowsChange
    maxTimeSpanRows, \* CalendarGrid state, handed to every DayColumn as timeSpanRows
    rowsQueued,      \* the queued setMaxTimeSpanRows value, -1 when none is queued
    \* useGoogleAuth / useCalendarEvents
    server,          \* the provider's events of each account
    authState,       \* per account: a valid token is held
    hookMounted,     \* the effects of the hooks have run once
    fetches,         \* calls of fetchEvents waiting at await Promise.all
    events,          \* state events
    loading,         \* state loading
    error,           \* state error
    nFetches,        \* calls of fetchEvents so far
    newestStored,    \* the latest-started call that has called setEvents
    failedFetches,   \* history: the calls whose catch block has run
    \* what CalendarGrid hands to its children
    dayDate,         \* the date of a rendered DayColumn
    dayEvents,       \* getEventsForDay(dayDate)
    spanEvents,      \* getTimeSpans()
    spanBars,        \* the bars TimeSpanLayer makes of spanEvents
    queried,         \* which of the two have been asked for
    \* DayColumn
    dcDate,          \* prop date, as the index of the day
    dcEvents,        \* prop events
    dcPxPerDay,      \* prop pxPerDay
    dcCards,         \* the event cards rendered in the day content
    dcMore,          \* N of the "+N more" indicator, 0 when there is none
    dcRendered       \* DayColumn has rendered

gridVars == << pxPerDay, mounted, width, scrollLeft, prevPx, isInitialMount,
               pending, rafQueue, frameLeft, scrollDirty, visibleRange,
               nEvents, lastEv, lastWrite, initWrites, anchor >>

rtVars == << rtScroll0, rtWidth, rtScroll, rtStep >>

segVars == << segCal, segLen, segKind, segIndex, currentKey, segmentStart, segments, segDone >>

\* the variables of the computations studied on their own
laneVars == << timeSpans, tsVisibleRange, tsPxPerDay, visibleTimeSpans, tsRendered, tsMaxRows,
              maxTimeSpanRows, rowsQueued >>

evVars == << server, authState, hookMounted, fetches, events, loading, error,
             nFetches, newestStored, failedFetches >>

qVars == << dayDate, dayEvents, spanEvents, spanBars, queried >>

dcVars == << dcDate, dcEvents, dcPxPerDay, dcCards, dcMore, dcRendered >>

pureVars == << rtVars, segVars, laneVars, evVars, qVars, dcVars >>

vars == << gridVars, pureVars >>

----------------------------------------------------------------------------
(* Program constants *)

InitialPxPerDay == 100
MinZoom == 30
MaxZoom == 250
DaysBeforeToday == 60
DaysAfterToday == 60
Buffer == 10
PRESETS == {30, 100, 200}

(* Bounds of the model *)
MaxEvents == 4

NULL == [none |-> TRUE]

\* slider positions tried (the range input yields integers in [min, max])
SliderValues == {59, MaxZoom}
\* container widths tried; 0 is a container that is not laid out yet
Widths == {0, 1000}
\* wheel events tried, as <<deltaY, deltaX>>
WheelDeltas == { <<100, 0>>, <<-100, 0>>, <<40, 40>>, <<-100, 40>> }

----------------------------------------------------------------------------
(* Arithmetic helpers *)

Max(a, b) == IF a >= b THEN a ELSE b
Min(a, b) == IF a <= b THEN a ELSE b
Abs(a) == IF a >= 0 THEN a ELSE -a
Floor(n, d) == n \div d
Ceil(n, d) == -((-n) \div d)

\* dates.length
TimelineLength == DaysBeforeToday + DaysAfterToday + 1
\* dates.findIndex(isSameDay(d, today))
TodayIndex == DaysBeforeToday

----------------------------------------------------------------------------
(* The scroll container *)

\* largest scrollLeft the container can hold: content width - client width
MaxScroll(px, w) == Max(0, TimelineLength * px - w)

\* the container keeps scrollLeft inside its scrollable range
ClampScroll(s, px, w) == Max(0, Min(s, MaxScroll(px, w)))

\* whole-pixel values the container may store for an assigned fraction n/d
StoredPixels(v) == { Floor(v.n, v.d), Ceil(v.n, v.d) }

----------------------------------------------------------------------------
(* Pure computations of CalendarGrid *)

\* calculateScrollOffset: Math.max(0, todayIndex*px - daysOffset*px), as a fraction over 2
CalculateScrollOffset(px, todayIndex) ==
    LET twiceDaysOffset == IF px >= 150 THEN 3
                           ELSE IF px >= 60 THEN 1
                           ELSE 10
    IN  [n |-> Max(0, 2 * todayIndex * px - twiceDaysOffset * px), d |-> 2]

\* centerDayIndex = (scrollLeft + containerWidth / 2) / pxPerDay
CenterDayIndex(s, w, px) == [n |-> 2 * s + w, d |-> 2 * px]

\* Math.max(0, centerDayIndex * px - currentContainerWidth / 2)
AnchoredScrollLeft(c, px, w) ==
    [n |-> Max(0, 2 * c.n * px - w * c.d), d |-> 2 * c.d]

\* zoomStep = Math.max(1, Math.round(pxPerDay * 0.02))
ZoomStep(px) == Max(1, (2 * px + 50) \div 100)

\* variant: the new zoom is not clamped
WheelZoom_Unclamped(px, deltaY) ==
    IF deltaY > 0 THEN px - ZoomStep(px) ELSE px + ZoomStep(px)

\* newPxPerDay = Math.max(minZoom, Math.min(maxZoom, pxPerDay + delta))
WheelZoom(px, deltaY) ==
    LET delta == IF deltaY > 0 THEN -ZoomStep(px) ELSE ZoomStep(px)
    IN  Max(MinZoom, Min(MaxZoom, px + delta))

\* variant: a tie of |deltaY| and |deltaX| counts as a zoom gesture
IsVerticalScroll_OrEqual(deltaY, deltaX) == Abs(deltaY) >= Abs(deltaX)

\* isVerticalScroll = Math.abs(e.deltaY) > Math.abs(e.deltaX)
IsVerticalScroll(deltaY, deltaX) == Abs(deltaY) > Abs(deltaX)

\* variant: the end index is not limited to dates.length
ComputeVisibleRange_NoUpperLimit(s, w, px) ==
    [start |-> Max(0, Floor(s, px) - Buffer),
     end   |-> Ceil(s + w, px) + Buffer]

\* handleScroll: the visible range for a scroll offset, width and zoom
ComputeVisibleRange(s, w, px) ==
    [start |-> Max(0, Floor(s, px) - Buffer),
     end   |-> Min(TimelineLength, Ceil(s + w, px) + Buffer)]

----------------------------------------------------------------------------
(* Initial state: the App is constructed, the grid is not shown yet *)

NoEvent == [kind |-> "none", p |-> 0, s |-> 0, w |-> 0, arg |-> 0, arg2 |-> 0, quiet |-> TRUE]
NoWrite == [by |-> "none", val |-> [n |-> 0, d |-> 1], w |-> 0, px |-> 0]

GridInit ==
    /\ pxPerDay = InitialPxPerDay
    /\ mounted = FALSE
    /\ width = 0
    /\ scrollLeft = 0
    /\ prevPx = InitialPxPerDay
    /\ isInitialMount = TRUE
    /\ pending = NULL
    /\ rafQueue = << >>
    /\ frameLeft = 0
    /\ scrollDirty = FALSE
    /\ visibleRange = [start |-> 0, end |-> 30]
    /\ nEvents = 0
    /\ lastEv = NoEvent
    /\ lastWrite = NoWrite
    /\ initWrites = 0
    /\ anchor = NULL

----------------------------------------------------------------------------
(* The zoom/scroll effect and the deferred callbacks *)

\* variant: every chain is one requestAnimationFrame longer
Callback_OneFrameMore(kind, left, c, px, off) ==
    [kind |-> kind, left |-> left + 1, c |-> c, px |-> px, off |-> off]

\* a requestAnimationFrame callback: `left` nested requestAnimationFrame calls
\* remain before the innermost callback assigns scrollLeft
Callback(kind, left, c, px, off) ==
    [kind |-> kind, left |-> left, c |-> c, px |-> px, off |-> off]

Zero == [n |-> 0, d |-> 1]

\* variant: the effect scrolls to today on mount and on every zoom change
ScrollEffect_AlwaysToday(isInit, prev, px, pend, s, w) ==
    IF TodayIndex >= 0
    THEN [raf |-> << Callback("init", 0, Zero, px, CalculateScrollOffset(px, TodayIndex)) >>,
          isInit |-> FALSE, prev |-> px]
    ELSE [raf |-> << >>, isInit |-> isInit, prev |-> px]

\* useEffect(..., [todayIndex, pxPerDay, calculateScrollOffset]): what it
\* schedules and what it leaves in the refs, run after a render with zoom px,
\* scroll offset s and width w
ScrollEffect(isInit, prev, px, pend, s, w) ==
    IF isInit /\ TodayIndex >= 0
    THEN [raf |-> << Callback("init", 0, Zero, px, CalculateScrollOffset(px, TodayIndex)) >>,
          isInit |-> FALSE, prev |-> px]
    ELSE IF prev # px /\ pend = NULL
    THEN [raf |-> << Callback("preset", 1, CenterDayIndex(s, w, prev), px, Zero) >>,
          isInit |-> isInit, prev |-> px]
    ELSE [raf |-> << >>, isInit |-> isInit, prev |-> px]

\* the value the innermost callback assigns to scrollLeft, or NULL when it
\* assigns nothing
CallbackWrite(cb, pend, w) ==
    IF cb.kind = "init" THEN cb.off
    ELSE IF cb.kind = "preset" THEN AnchoredScrollLeft(cb.c, cb.px, w)
    ELSE IF pend # NULL THEN AnchoredScrollLeft(pend.centerDayIndex, pend.newPxPerDay, w)
    ELSE NULL

\* a zoom event starts a burst when nothing is deferred; the burst remembers
\* the centre day index seen before its first change and whether every
\* change so far has zoomed in
BurstAnchor(newPx) ==
    IF rafQueue = << >>
    THEN [n |-> 2 * scrollLeft + width, d |-> 2 * pxPerDay, zoomIn |-> newPx > pxPerDay]
    ELSE IF anchor = NULL THEN NULL
    ELSE [anchor EXCEPT !.zoomIn = anchor.zoomIn /\ newPx > pxPerDay]

Event(kind, arg, arg2) ==
    [kind |-> kind, p |-> pxPerDay, s |-> scrollLeft, w |-> width,
     arg |-> arg, arg2 |-> arg2, quiet |-> (rafQueue = << >> /\ pending = NULL)]

CanHandleEvent == frameLeft = 0 /\ nEvents < MaxEvents

----------------------------------------------------------------------------
(* Actions *)

\* App shows the calendar: CalendarGrid mounts, its effects run
Mount(w) ==
    /\ CanHandleEvent
    /\ ~mounted
    /\ LET eff == ScrollEffect(TRUE, pxPerDay, pxPerDay, NULL, 0, w)
       IN  /\ rafQueue' = eff.raf
           /\ isInitialMount' = eff.isInit
           /\ prevPx' = eff.prev
    /\ mounted' = TRUE
    /\ width' = w
    /\ scrollLeft' = 0
    /\ pending' = NULL
    /\ scrollDirty' = FALSE
    /\ visibleRange' = ComputeVisibleRange(0, w, pxPerDay)
    /\ initWrites' = 0
    /\ anchor' = NULL
    /\ lastEv' = Event("mount", w, 0)
    /\ nEvents' = nEvents + 1
    /\ UNCHANGED pureVars
    /\ UNCHANGED << pxPerDay, frameLeft, lastWrite >>

\* App hides the calendar: the grid unmounts; callbacks of the unmounted
\* instance find scrollContainerRef.current null and do nothing, so they
\* are dropped here
Unmount ==
    /\ CanHandleEvent
    /\ mounted
    /\ mounted' = FALSE
    /\ rafQueue' = << >>
    /\ pending' = NULL
    /\ isInitialMount' = TRUE
    /\ width' = 0
    /\ scrollLeft' = 0
    /\ scrollDirty' = FALSE
    /\ visibleRange' = [start |-> 0, end |-> 30]
    /\ anchor' = NULL
    /\ lastEv' = Event("unmount", 0, 0)
    /\ nEvents' = nEvents + 1
    /\ UNCHANGED pureVars
    /\ UNCHANGED << pxPerDay, prevPx, frameLeft, lastWrite, initWrites >>

\* the re-render after setPxPerDay(newPx): the content gets its new width, the
\* container keeps scrollLeft in range, then both effects run; `pend` is
\* pendingScrollAdjustmentRef.current at that time and `queued` what the
\* event handler itself scheduled
Rerender(newPx, pend, queued) ==
    LET s1 == ClampScroll(scrollLeft, newPx, width)
        eff == ScrollEffect(isInitialMount, prevPx, newPx, pend, s1, width)
    IN  /\ pxPerDay' = newPx
        /\ scrollLeft' = s1
        /\ scrollDirty' = (scrollDirty \/ s1 # scrollLeft)
        /\ rafQueue' = rafQueue \o queued \o eff.raf
        /\ isInitialMount' = eff.isInit
        /\ prevPx' = eff.prev
        /\ visibleRange' = ComputeVisibleRange(s1, width, newPx)

\* ZoomControls: a preset button or the slider calls onZoomChange(px)
ZoomChange(kind, px) ==
    /\ CanHandleEvent
    /\ mounted
    /\ lastEv' = Event(kind, px, 0)
    /\ nEvents' = nEvents + 1
    /\ UNCHANGED pureVars
    /\ IF px # pxPerDay
       THEN /\ Rerender(px, pending, << >>)
            /\ anchor' = BurstAnchor(px)
       ELSE UNCHANGED << pxPerDay, scrollLeft, scrollDirty, rafQueue,
                         isInitialMount, prevPx, visibleRange, anchor >>
    /\ UNCHANGED << mounted, width, pending, frameLeft, lastWrite, initWrites >>

PresetClick == \E px \in PRESETS : ZoomChange("preset", px)
SliderChange == \E px \in SliderValues : ZoomChange("slider", px)

\* handleWheel
Wheel(deltaY, deltaX) ==
    /\ CanHandleEvent
    /\ mounted
    /\ lastEv' = Event("wheel", deltaY, deltaX)
    /\ nEvents' = nEvents + 1
    /\ UNCHANGED pureVars
    /\ IF IsVerticalScroll(deltaY, deltaX)
       THEN LET newPxPerDay == WheelZoom(pxPerDay, deltaY)
                adj == [centerDayIndex |-> CenterDayIndex(scrollLeft, width, pxPerDay),
                        newPxPerDay |-> newPxPerDay,
                        containerWidth |-> width]
            IN  IF newPxPerDay # pxPerDay
                THEN /\ pending' = adj
                     /\ Rerender(newPxPerDay, adj,
                                 << Callback("wheel", 2, Zero, newPxPerDay, Zero) >>)
                     /\ anchor' = BurstAnchor(newPxPerDay)
                ELSE UNCHANGED << pending, pxPerDay, scrollLeft, scrollDirty, rafQueue,
                                  isInitialMount, prevPx, visibleRange, anchor >>
       ELSE \* not a zoom gesture: the container scrolls natively by deltaX
            LET s1 == ClampScroll(scrollLeft + deltaX, pxPerDay, width)
            IN  /\ scrollLeft' = s1
                /\ scrollDirty' = (scrollDirty \/ s1 # scrollLeft)
                /\ anchor' = IF s1 # scrollLeft THEN NULL ELSE anchor
                /\ UNCHANGED << pending, pxPerDay, rafQueue, isInitialMount,
                                prevPx, visibleRange >>
    /\ UNCHANGED << mounted, width, frameLeft, lastWrite, initWrites >>

WheelEvent == \E d \in WheelDeltas : Wheel(d[1], d[2])

\* the user drags the scrollbar to the start, the middle or the end
ScrollStops == { 0, MaxScroll(pxPerDay, width) \div 2, MaxScroll(pxPerDay, width) }

UserScroll ==
    /\ CanHandleEvent
    /\ mounted
    /\ \E s \in ScrollStops :
         /\ s # scrollLeft
         /\ scrollLeft' = s
         /\ lastEv' = Event("scroll", s, 0)
    /\ scrollDirty' = TRUE
    /\ anchor' = NULL
    /\ nEvents' = nEvents + 1
    /\ UNCHANGED pureVars
    /\ UNCHANGED << pxPerDay, mounted, width, prevPx, isInitialMount, pending,
                    rafQueue, frameLeft, visibleRange, lastWrite, initWrites >>

\* the window is resized (or the container is laid out): no handler of the
\* grid listens to it
Resize ==
    /\ CanHandleEvent
    /\ mounted
    /\ \E w \in Widths :
         /\ w # width
         /\ width' = w
         /\ scrollLeft' = ClampScroll(scrollLeft, pxPerDay, w)
         /\ lastEv' = Event("resize", w, 0)
    /\ scrollDirty' = (scrollDirty \/ scrollLeft' # scrollLeft)
    /\ anchor' = NULL
    /\ nEvents' = nEvents + 1
    /\ UNCHANGED pureVars
    /\ UNCHANGED << pxPerDay, mounted, prevPx, isInitialMount, pending,
                    rafQueue, frameLeft, visibleRange, lastWrite, initWrites >>

\* the browser starts a frame: a due 'scroll' event is dispatched to
\* handleScroll, then the callbacks queued so far are run
BeginFrame ==
    /\ frameLeft = 0
    /\ rafQueue # << >> \/ scrollDirty
    /\ frameLeft' = Len(rafQueue)
    /\ scrollDirty' = FALSE
    /\ visibleRange' = IF scrollDirty /\ mounted
                       THEN ComputeVisibleRange(scrollLeft, width, pxPerDay)
                       ELSE visibleRange
    /\ UNCHANGED << pxPerDay, mounted, width, scrollLeft, prevPx, isInitialMount,
                    pending, rafQueue, nEvents, lastEv, lastWrite, initWrites, anchor >>
    /\ UNCHANGED pureVars

\* one callback of the running frame
RunCallback ==
    /\ frameLeft > 0
    /\ frameLeft' = frameLeft - 1
    /\ LET cb == Head(rafQueue)
           v == CallbackWrite(cb, pending, width)
       IN  IF cb.left > 0
           THEN /\ rafQueue' = Append(Tail(rafQueue), [cb EXCEPT !.left = cb.left - 1])
                /\ UNCHANGED << scrollLeft, scrollDirty, pending, lastWrite, initWrites >>
           ELSE /\ rafQueue' = Tail(rafQueue)
                /\ IF v = NULL
                   THEN UNCHANGED << scrollLeft, scrollDirty, pending, lastWrite, initWrites >>
                   ELSE /\ \E x \in StoredPixels(v) :
                             scrollLeft' = ClampScroll(x, pxPerDay, width)
                        /\ scrollDirty' = (scrollDirty \/ scrollLeft' # scrollLeft)
                        /\ pending' = IF cb.kind = "wheel" THEN NULL ELSE pending
                        /\ lastWrite' = [by |-> cb.kind, val |-> v, w |-> width, px |-> cb.px]
                        /\ initWrites' = IF cb.kind = "init" THEN initWrites + 1 ELSE initWrites
    /\ UNCHANGED << pxPerDay, mounted, width, prevPx, isInitialMount,
                    visibleRange, nEvents, lastEv, anchor >>
    /\ UNCHANGED pureVars

Next ==
    \/ \E w \in Widths : Mount(w)
    \/ Unmount
    \/ PresetClick
    \/ SliderChange
    \/ WheelEvent
    \/ UserScroll
    \/ Resize
    \/ BeginFrame
    \/ RunCallback

\* the computations studied on their own stay idle in the grid's specification
RtIdle == rtScroll0 = 0 /\ rtWidth = 0 /\ rtScroll = 0 /\ rtStep = 0

SegIdle ==
    /\ segCal = [first |-> 0, jan1 |-> 0, leap |-> 0]
    /\ segLen = 0
    /\ segKind = "month"
    /\ segIndex = 0
    /\ currentKey = -1
    /\ segmentStart = 0
    /\ segments = << >>
    /\ segDone = FALSE

LaneIdle ==
    /\ timeSpans = << >>
    /\ tsVisibleRange = [start |-> 0, end |-> 30]
    /\ tsPxPerDay = InitialPxPerDay
    /\ visibleTimeSpans = << >>
    /\ tsRendered = FALSE
    /\ tsMaxRows = 0
    /\ maxTimeSpanRows = 0
    /\ rowsQueued = -1

\* no account is connected and nothing has been fetched; error "null" stands
\* for the null of the error state
EvIdle ==
    /\ server = [work |-> << >>, private |-> << >>]
    /\ authState = [work |-> FALSE, private |-> FALSE]
    /\ hookMounted = FALSE
    /\ fetches = {}
    /\ events = << >>
    /\ loading = FALSE
    /\ error = "null"
    /\ nFetches = 0
    /\ newestStored = 0
    /\ failedFetches = {}

QIdle ==
    /\ dayDate = -1
    /\ dayEvents = << >>
    /\ spanEvents = << >>
    /\ spanBars = << >>
    /\ queried = {}

DcIdle ==
    /\ dcDate = 0
    /\ dcEvents = << >>
    /\ dcPxPerDay = InitialPxPerDay
    /\ dcCards = << >>
    /\ dcMore = 0
    /\ dcRendered = FALSE

Init == GridInit /\ RtIdle /\ SegIdle /\ LaneIdle /\ EvIdle /\ QIdle /\ DcIdle

Spec == Init /\ [][Next]_vars

\* the grid under zoom events with the browser's frames: a frame is run
\* whenever a callback or a scroll event is due, and a running frame runs all
\* its callbacks
InitFrames == GridInit /\ RtIdle /\ SegIdle /\ LaneIdle /\ EvIdle /\ QIdle /\ DcIdle

\* the wheel events that zoom: one step in and one step out, with no
\* horizontal part (the zoom branch of the handler does not read deltaX)
ZoomWheelDeltas == { d \in WheelDeltas : IsVerticalScroll(d[1], d[2]) /\ d[2] = 0 }

\* the mount and the zoom events only
NextFrames ==
    \/ \E w \in Widths : Mount(w)
    \/ PresetClick
    \/ SliderChange
    \/ \E d \in ZoomWheelDeltas : Wheel(d[1], d[2])
    \/ BeginFrame
    \/ RunCallback

SpecFrames ==
    InitFrames /\ [][NextFrames]_vars /\ WF_vars(BeginFrame) /\ WF_vars(RunCallback)

----------------------------------------------------------------------------
(* The zoom-anchor computation on its own: 100 -> 200 -> 100 *)

\* scroll offsets tried: MaxRtScrolls multiples of 37 px after 0; widths
\* tried: MaxRtWidths steps of 111 px after 1 px
MaxRtScrolls == 12
MaxRtWidths == 9

RtZoomedIn == 200

\* variant: the half width is added for the centre but not taken off again
AnchorZoomChange_KeepsHalfWidth(oldPx, newPx, s, w) ==
    [n |-> Max(0, (2 * s + w) * newPx), d |-> 2 * oldPx]

\* anchorZoomChange: the centre index is read under the old scale and the
\* offset that centres it under the new scale is assigned to scrollLeft
AnchorZoomChange(oldPx, newPx, s, w) ==
    AnchoredScrollLeft(CenterDayIndex(s, w, oldPx), newPx, w)

RtInit ==
    /\ rtScroll0 \in { 37 * i : i \in 0..MaxRtScrolls }
    /\ rtWidth \in { 1 + 111 * j : j \in 0..MaxRtWidths }
    /\ rtScroll = rtScroll0
    /\ rtStep = 0

RtZoomIn ==
    /\ rtStep = 0
    /\ rtScroll' \in StoredPixels(AnchorZoomChange(InitialPxPerDay, RtZoomedIn, rtScroll, rtWidth))
    /\ rtStep' = 1
    /\ UNCHANGED << rtScroll0, rtWidth, gridVars, segVars, laneVars, evVars, qVars, dcVars >>

RtZoomBack ==
    /\ rtStep = 1
    /\ rtScroll' \in StoredPixels(AnchorZoomChange(RtZoomedIn, InitialPxPerDay, rtScroll, rtWidth))
    /\ rtStep' = 2
    /\ UNCHANGED << rtScroll0, rtWidth, gridVars, segVars, laneVars, evVars, qVars, dcVars >>

RtNext == RtZoomIn \/ RtZoomBack

InitAnchor == GridInit /\ RtInit /\ SegIdle /\ LaneIdle /\ EvIdle /\ QIdle /\ DcIdle

SpecAnchor == InitAnchor /\ [][RtNext]_vars

----------------------------------------------------------------------------
(* Month and week segments of the timeline *)

\* first days of the timeline tried: every 25th day of a year
SegFirstDays == { d \in 0..364 : d % 25 = 0 }
\* timeline lengths tried, as <<daysBeforeToday, daysAfterToday>>
SegDayRanges == { <<0, 0>>, <<1, 0>>, <<15, 15>>, <<DaysBeforeToday, DaysAfterToday>> }

\* a calendar: days are numbered from 1 January of a first year; jan1 is the
\* weekday of that day (0 = Monday); leap = 1 when the first year is a leap
\* year, 2 when the following year is
YearLength(cal, y) == IF cal.leap = y + 1 THEN 366 ELSE 365

MonthLengths(leapYear) ==
    << 31, IF leapYear THEN 29 ELSE 28, 31, 30, 31, 30, 31, 31, 30, 31, 30, 31 >>

RECURSIVE MonthOfYearDay(_, _, _)
\* the month (0-11) of the day-of-year doy (0-based), searched from month m
MonthOfYearDay(doy, m, lens) ==
    IF doy < lens[m + 1] THEN m ELSE MonthOfYearDay(doy - lens[m + 1], m + 1, lens)

\* the year (0 or 1) of day number d, and the number of its 1 January
YearOf(cal, d) == IF d < YearLength(cal, 0) THEN 0 ELSE 1
Jan1Of(cal, y) == IF y = 0 THEN 0 ELSE IF y = 1 THEN YearLength(cal, 0)
                  ELSE YearLength(cal, 0) + YearLength(cal, 1)

\* getMonthIndex(date) = getMonth(date)
GetMonthIndex(cal, d) ==
    LET y == YearOf(cal, d)
    IN  MonthOfYearDay(d - Jan1Of(cal, y), 0, MonthLengths(cal.leap = y + 1))

\* startOfWeek(date, { weekStartsOn: 1 })
StartOfWeek(cal, d) == d - ((cal.jan1 + d) % 7)

\* getWeekNumber(date) = getWeek(date, { weekStartsOn: 1 }): weeks are counted
\* from the week that holds 1 January of the date's week-numbering year
GetWeekNumber(cal, d) ==
    LET y == YearOf(cal, d)
        startOfNextYear == StartOfWeek(cal, Jan1Of(cal, y + 1))
        startOfThisYear == StartOfWeek(cal, Jan1Of(cal, y))
        startOfWeekYear == IF d >= startOfNextYear THEN startOfNextYear ELSE startOfThisYear
    IN  (StartOfWeek(cal, d) - startOfWeekYear) \div 7 + 1

\* dates[index] of getDateRange
DateAt(cal, index) == cal.first + index

\* variant: a segment is closed one index late
Segment_EndsOneLate(key, start, endIndex) ==
    [key |-> key, startIndex |-> start, endIndex |-> endIndex + 1]

\* segments.push({ key, startIndex: segmentStart, endIndex })
Segment(key, start, endIndex) ==
    [key |-> key, startIndex |-> start, endIndex |-> endIndex]

\* getMonthIndex(date) in monthSegments, getWeekNumber(date) in weekSegments
GroupKey(kind, cal, index) ==
    IF kind = "month" THEN GetMonthIndex(cal, DateAt(cal, index))
    ELSE GetWeekNumber(cal, DateAt(cal, index))

SegInit ==
    /\ segCal \in [first : SegFirstDays, jan1 : 0..6, leap : 0..2]
    /\ segLen \in { r[1] + r[2] + 1 : r \in SegDayRanges }
    /\ segKind \in {"month", "week"}
    /\ segIndex = 0
    /\ currentKey = -1
    /\ segmentStart = 0
    /\ segments = << >>
    /\ segDone = FALSE

\* the body of dates.forEach((date, index) => ...) for one date
SegVisitDate ==
    /\ ~segDone
    /\ segIndex < segLen
    /\ LET key == GroupKey(segKind, segCal, segIndex)
       IN  IF key # currentKey
           THEN /\ segments' = IF currentKey # -1
                               THEN Append(segments, Segment(currentKey, segmentStart, segIndex - 1))
                               ELSE segments
                /\ currentKey' = key
                /\ segmentStart' = segIndex
           ELSE UNCHANGED << segments, currentKey, segmentStart >>
    /\ segIndex' = segIndex + 1
    /\ UNCHANGED << segCal, segLen, segKind, segDone, gridVars, rtVars, laneVars, evVars, qVars, dcVars >>

\* "Add the last segment" and return
SegAddLast ==
    /\ ~segDone
    /\ segIndex = segLen
    /\ segments' = IF currentKey # -1
                   THEN Append(segments, Segment(currentKey, segmentStart, segLen - 1))
                   ELSE segments
    /\ segDone' = TRUE
    /\ UNCHANGED << segCal, segLen, segKind, segIndex, currentKey, segmentStart,
                    gridVars, rtVars, laneVars, evVars, qVars, dcVars >>

SegNext == SegVisitDate \/ SegAddLast

InitSegments == GridInit /\ RtIdle /\ SegInit /\ LaneIdle /\ EvIdle /\ QIdle /\ DcIdle

SpecSegments == InitSegments /\ [][SegNext]_vars

----------------------------------------------------------------------------
(* TimeSpanLayer: positions and rows of the time spans *)

\* most time spans handed to the layer
MaxSpans == 3
\* day indices (relative to dates[0]) on which the spans tried start, and
\* their lengths in days up to the exclusive end date
SpanStarts == { -3, 0, 2, 6, 119 }
SpanLengths == { 2, 5, 6, 7, 130 }
\* visible ranges tried: the initial state and results of handleScroll
LaneRanges == { [start |-> 0, end |-> 30], [start |-> 49, end |-> 80],
                [start |-> 97, end |-> TimelineLength] }
LanePxPerDay == { MinZoom, InitialPxPerDay }

\* a time span: an all-day event of two or more days; startDay and endDay are
\* the day indices of startOfDay(startTs) and startOfDay(endTs)
SpanSet == { [startDay |-> a, endDay |-> a + l, allDay |-> TRUE] :
             a \in SpanStarts, l \in SpanLengths }

\* dates.findIndex((d) => isSameDay(d, day))
FindIndex(day) == IF day >= 0 /\ day < TimelineLength THEN day ELSE -1

NoPosition == [skipped |-> TRUE]

\* variant: the last timeline day is taken to be dates.length
SpanPosition_EndsAtLength(k, span, range, px) ==
    LET startDate == span.startDay
        endDate == IF span.allDay THEN span.endDay - 1 ELSE span.endDay
        startIndex == FindIndex(startDate)
        endIndex == FindIndex(endDate)
        visibleStart == Max(0, IF startIndex = -1 THEN 0 ELSE startIndex)
        visibleEnd == Min(TimelineLength,
                          IF endIndex = -1 THEN TimelineLength ELSE endIndex)
        actualStart == Max(visibleStart, range.start)
        actualEnd == Min(visibleEnd, range.end)
    IN  IF startIndex = -1 /\ endIndex = -1 THEN NoPosition
        ELSE IF visibleEnd < range.start \/ visibleStart > range.end THEN NoPosition
        ELSE [span |-> k,
              left |-> actualStart * px,
              width |-> (actualEnd - actualStart + 1) * px,
              startIndex |-> actualStart,
              endIndex |-> actualEnd,
              originalStartIndex |-> IF startIndex # -1 THEN startIndex ELSE visibleStart,
              originalEndIndex |-> IF endIndex # -1 THEN endIndex ELSE visibleEnd]

\* the callback of timeSpans.map: the position of the k-th span, or
\* NoPosition where the callback returns null
SpanPosition(k, span, range, px) ==
    LET startDate == span.startDay
        endDate == IF span.allDay THEN span.endDay - 1 ELSE span.endDay
        startIndex == FindIndex(startDate)
        endIndex == FindIndex(endDate)
        visibleStart == Max(0, IF startIndex = -1 THEN 0 ELSE startIndex)
        visibleEnd == Min(TimelineLength - 1,
                          IF endIndex = -1 THEN TimelineLength - 1 ELSE endIndex)
        actualStart == Max(visibleStart, range.start)
        actualEnd == Min(visibleEnd, range.end)
    IN  IF startIndex = -1 /\ endIndex = -1 THEN NoPosition
        ELSE IF visibleEnd < range.start \/ visibleStart > range.end THEN NoPosition
        ELSE [span |-> k,
              left |-> actualStart * px,
              width |-> (actualEnd - actualStart + 1) * px,
              startIndex |-> actualStart,
              endIndex |-> actualEnd,
              originalStartIndex |-> IF startIndex # -1 THEN startIndex ELSE visibleStart,
              originalEndIndex |-> IF endIndex # -1 THEN endIndex ELSE visibleEnd]

RECURSIVE SpansWithPositions(_, _, _, _)
\* timeSpans.map(...).filter(item => item !== null), from the k-th span on
SpansWithPositions(spans, k, range, px) ==
    IF k > Len(spans) THEN << >>
    ELSE LET pos == SpanPosition(k, spans[k], range, px)
             rest == SpansWithPositions(spans, k + 1, range, px)
         IN  IF pos = NoPosition THEN rest ELSE << pos >> \o rest

RECURSIVE InsertByStart(_, _)
\* insert item behind the items that do not start after it
InsertByStart(sorted, item) ==
    IF sorted = << >> THEN << item >>
    ELSE IF sorted[Len(sorted)].originalStartIndex <= item.originalStartIndex
         THEN Append(sorted, item)
         ELSE Append(InsertByStart(SubSeq(sorted, 1, Len(sorted) - 1), item),
                     sorted[Len(sorted)])

RECURSIVE SortByStart(_)
\* spansWithPositions.sort((a, b) => a.originalStartIndex - b.originalStartIndex),
\* a stable sort
SortByStart(items) ==
    IF items = << >> THEN << >>
    ELSE InsertByStart(SortByStart(SubSeq(items, 1, Len(items) - 1)), items[Len(items)])

\* variant: spans that only share one day do not count as overlapping
Overlaps_Strict(span, existingSpan) ==
    /\ span.originalStartIndex < existingSpan.originalEndIndex
    /\ span.originalEndIndex > existingSpan.originalStartIndex

\* "Two spans overlap if one starts before the other ends"
Overlaps(span, existingSpan) ==
    /\ span.originalStartIndex <= existingSpan.originalEndIndex
    /\ span.originalEndIndex >= existingSpan.originalStartIndex

\* variant: the search goes on after a free row was found (no break), so
\* the last free row is taken
FirstFreeRow_NoBreak(span, rows) ==
    LET free == { r \in 1..Len(rows) :
                    ~\E i \in 1..Len(rows[r]) : Overlaps(span, rows[r][i]) }
    IN  IF free = {} THEN -1
        ELSE (CHOOSE r \in free : \A q \in free : r >= q) - 1

\* the first row (0-based) in which span overlaps no span, or -1; a row is
\* the sequence of spans put in it
FirstFreeRow(span, rows) ==
    LET free == { r \in 1..Len(rows) :
                    ~\E i \in 1..Len(rows[r]) : Overlaps(span, rows[r][i]) }
    IN  IF free = {} THEN -1
        ELSE (CHOOSE r \in free : \A q \in free : r <= q) - 1

RECURSIVE AssignRows(_, _, _)
\* for (const span of spansWithPositions) { ... rows[assignedRow].push(span) }
AssignRows(sorted, i, rows) ==
    IF i > Len(sorted) THEN rows
    ELSE LET span == sorted[i]
             found == FirstFreeRow(span, rows)
             assignedRow == IF found = -1 THEN Len(rows) ELSE found
             rows1 == IF found = -1 THEN Append(rows, << >>) ELSE rows
         IN  AssignRows(sorted, i + 1,
                        [rows1 EXCEPT ![assignedRow + 1] = Append(@, span)])

\* rows.findIndex((row) => row.includes(span)), 0 when there is none
RowIndexOf(span, rows) ==
    LET holding == { r \in 1..Len(rows) : \E i \in 1..Len(rows[r]) : rows[r][i] = span }
    IN  IF holding = {} THEN 0
        ELSE (CHOOSE r \in holding : \A q \in holding : r <= q) - 1

\* the useMemo of TimeSpanLayer
VisibleTimeSpans(spans, range, px) ==
    LET sorted == SortByStart(SpansWithPositions(spans, 1, range, px))
        rows == AssignRows(sorted, 1, << >>)
    IN  [i \in 1..Len(sorted) |->
            [span |-> sorted[i].span,
             left |-> sorted[i].left,
             width |-> sorted[i].width,
             startIndex |-> sorted[i].startIndex,
             endIndex |-> sorted[i].endIndex,
             originalStartIndex |-> sorted[i].originalStartIndex,
             originalEndIndex |-> sorted[i].originalEndIndex,
             rowIndex |-> RowIndexOf(sorted[i], rows)]]

\* variant: the highest row index is reported as the row count
MaxRows_HighestRowIndex(visible) ==
    IF Len(visible) = 0 THEN 0
    ELSE CHOOSE m \in { visible[i].rowIndex : i \in 1..Len(visible) } :
            \A i \in 1..Len(visible) : visible[i].rowIndex <= m

\* maxRows = Math.max(...visibleTimeSpans.map(s => s.rowIndex)) + 1, 0 for none
MaxRows(visible) ==
    IF Len(visible) = 0 THEN 0
    ELSE (CHOOSE m \in { visible[i].rowIndex : i \in 1..Len(visible) } :
            \A i \in 1..Len(visible) : visible[i].rowIndex <= m) + 1

\* the events are kept sorted by startTs, and getTimeSpans keeps their order
SortedByStartDay(spans) ==
    \A i \in 1..Len(spans) - 1 : spans[i].startDay <= spans[i + 1].startDay

LaneInit ==
    /\ timeSpans \in { q \in UNION { [1..n -> SpanSet] : n \in 0..MaxSpans } : SortedByStartDay(q) }
    /\ tsVisibleRange \in LaneRanges
    /\ tsPxPerDay \in LanePxPerDay
    /\ visibleTimeSpans = << >>
    /\ tsRendered = FALSE
    /\ tsMaxRows = 0
    /\ maxTimeSpanRows = 0
    /\ rowsQueued = -1

\* onMaxRowsChange(maxRows) = setMaxTimeSpanRows(maxRows) called while the
\* layer renders: an update is queued unless the state holds that value
QueuedRows(maxRows, state) == IF maxRows = state THEN -1 ELSE maxRows

\* the top of a span bar and the top padding of the day header, in px
ROW_HEIGHT == 20
ROW_GAP == 2
BarTop(rowIndex) == 40 + rowIndex * (ROW_HEIGHT + ROW_GAP)
HeaderPaddingTop(timeSpanRows) ==
    IF timeSpanRows > 0 THEN 62 + (timeSpanRows - 1) * 22 ELSE 62

\* CalendarGrid renders the layer with the visible range and zoom it holds
RenderTimeSpanLayer ==
    /\ ~tsRendered
    /\ visibleTimeSpans' = VisibleTimeSpans(timeSpans, tsVisibleRange, tsPxPerDay)
    /\ tsMaxRows' = MaxRows(visibleTimeSpans')
    /\ rowsQueued' = QueuedRows(tsMaxRows', maxTimeSpanRows)
    /\ tsRendered' = TRUE
    /\ UNCHANGED << timeSpans, tsVisibleRange, tsPxPerDay, maxTimeSpanRows,
                    gridVars, rtVars, segVars, evVars, qVars, dcVars >>

\* handleScroll sets another visible range and the layer renders again
RenderAfterScroll ==
    /\ tsRendered
    /\ \E range \in LaneRanges :
         /\ range # tsVisibleRange
         /\ tsVisibleRange' = range
         /\ visibleTimeSpans' = VisibleTimeSpans(timeSpans, range, tsPxPerDay)
    /\ tsMaxRows' = MaxRows(visibleTimeSpans')
    /\ maxTimeSpanRows' = IF rowsQueued # -1 THEN rowsQueued ELSE maxTimeSpanRows
    /\ rowsQueued' = QueuedRows(tsMaxRows', maxTimeSpanRows')
    /\ UNCHANGED << timeSpans, tsPxPerDay, tsRendered, gridVars, rtVars, segVars, evVars, qVars, dcVars >>

\* the render the queued setMaxTimeSpanRows causes: CalendarGrid renders with
\* the new row count, the layer renders with the props it had and reports
\* the same count again
RenderWithRows ==
    /\ tsRendered
    /\ rowsQueued # -1
    /\ maxTimeSpanRows' = rowsQueued
    /\ tsMaxRows' = MaxRows(visibleTimeSpans)
    /\ rowsQueued' = QueuedRows(tsMaxRows', maxTimeSpanRows')
    /\ UNCHANGED << timeSpans, tsVisibleRange, tsPxPerDay, visibleTimeSpans, tsRendered,
                    gridVars, rtVars, segVars, evVars, qVars, dcVars >>

LaneNext == RenderTimeSpanLayer \/ RenderAfterScroll \/ RenderWithRows

InitLanes == GridInit /\ RtIdle /\ SegIdle /\ LaneInit /\ EvIdle /\ QIdle /\ DcIdle

SpecLanes == InitLanes /\ [][LaneNext]_vars

----------------------------------------------------------------------------
(* useCalendarEvents: normalizeEvent, fetchEvents, getEventsForDay, getTimeSpans *)

\* times are milliseconds of local time counted from the midnight that begins
\* dates[0]; a day has DayMs of them (no daylight-saving change in the window)
DayMs == 86400000
AccountIds == {"work", "private"}

\* most calls of fetchEvents in one run
MaxFetches == 3

Absent == [kind |-> "absent"]
\* a dateTime string, by the local instant it denotes
DateTimeStr(ms) == [kind |-> "dateTime", ms |-> ms]
\* a YYYY-MM-DD string, by the index of the day it denotes
DateStr(day) == [kind |-> "date", day |-> day]
EmptyStr == [kind |-> "empty"]
\* a string that is present, e.g. a summary
Str(text) == [kind |-> "string", text |-> text]
NaN == [nan |-> TRUE]
\* Number.isNaN(x), x a number or NaN
IsNaN(x) == ToString(x) = ToString(NaN)
\* a < b, a > b and a >= b of two numbers: false when either is NaN
Lt(a, b) == ~IsNaN(a) /\ ~IsNaN(b) /\ a < b
Gt(a, b) == ~IsNaN(a) /\ ~IsNaN(b) /\ a > b
Ge(a, b) == ~IsNaN(a) /\ ~IsNaN(b) /\ a >= b

\* startOfDay / endOfDay of an instant
StartOfDay(ts) == Floor(ts, DayMs) * DayMs
EndOfDay(ts) == StartOfDay(ts) + DayMs - 1

\* parseISO(dateStr).getTime(): a date-only string is local midnight
ParseISO(str) ==
    IF str.kind = "dateTime" THEN str.ms
    ELSE IF str.kind = "date" THEN str.day * DayMs
    ELSE NaN

\* parseGoogleDate(dateStr, isAllDay)
ParseGoogleDate(dateStr, isAllDay) ==
    IF dateStr.kind \notin {"dateTime", "date"} THEN NaN
    ELSE IF isAllDay THEN StartOfDay(ParseISO(dateStr)) ELSE ParseISO(dateStr)

Sign(x) == IF x > 0 THEN 1 ELSE IF x < 0 THEN -1 ELSE 0

\* getDaysDifference(startTs, endTs) = differenceInDays(end, start): the
\* calendar days between the two, less one when the last day is not full;
\* NaN when either date is invalid
GetDaysDifference(startTs, endTs) ==
    IF IsNaN(startTs) \/ IsNaN(endTs) THEN NaN
    ELSE LET sign == Sign(endTs - startTs)
             difference == Abs(Floor(endTs, DayMs) - Floor(startTs, DayMs))
             moved == endTs - sign * difference * DayMs
             isLastDayNotFull == IF Sign(moved - startTs) = -sign /\ sign # 0 THEN 1 ELSE 0
         IN  sign * (difference - isLastDayNotFull)

\* a GoogleCalendarEvent: id is a sequence of characters, summary a string or
\* Absent, start and end hold a dateTime, a date or neither; attendees is a
\* sequence of [self, responseStatus], responseStatus "undefined" when the
\* provider gives none
RawEvent(id, summary, start, end, attendees) ==
    [id |-> id, summary |-> summary,
     start |-> start, end |-> end, attendees |-> attendees]

\* the characters of the two account ids
AccountChars ==
    [work |-> << "w", "o", "r", "k" >>,
     private |-> << "p", "r", "i", "v", "a", "t", "e" >>]

\* the template string `${accountId}-${event.id}`
CompositeId(accountId, eventId) == AccountChars[accountId] \o << "-" >> \o eventId

\* variant: a span needs more than two days
NormalizeEvent_MoreThanTwoDays(event, accountId) ==
    LET isAllDay == event.start.dateTime = Absent
        startStr == IF event.start.dateTime # Absent THEN event.start.dateTime
                    ELSE IF event.start.date # Absent THEN event.start.date ELSE EmptyStr
        endStr == IF event.end.dateTime # Absent THEN event.end.dateTime
                  ELSE IF event.end.date # Absent THEN event.end.date ELSE EmptyStr
        selfAttendees == { i \in 1..Len(event.attendees) : event.attendees[i].self }
        userAttendee == IF selfAttendees = {} THEN "undefined"
                        ELSE event.attendees[CHOOSE i \in selfAttendees :
                                               \A j \in selfAttendees : i <= j].responseStatus
        startTs == ParseGoogleDate(startStr, isAllDay)
        endTs == ParseGoogleDate(endStr, isAllDay)
        isTimeSpan == isAllDay /\ Gt(GetDaysDifference(startTs, endTs), 2)
    IN  [id |-> CompositeId(accountId, event.id),
         accountId |-> accountId,
         title |-> IF event.summary = Absent \/ event.summary = Str("")
                   THEN "(No title)" ELSE event.summary.text,
         allDay |-> isAllDay,
         startTs |-> startTs,
         endTs |-> endTs,
         rsvpStatus |-> userAttendee,
         isTimeSpan |-> isTimeSpan]

\* normalizeEvent(event, accountId)
NormalizeEvent(event, accountId) ==
    LET isAllDay == event.start.dateTime = Absent
        startStr == IF event.start.dateTime # Absent THEN event.start.dateTime
                    ELSE IF event.start.date # Absent THEN event.start.date ELSE EmptyStr
        endStr == IF event.end.dateTime # Absent THEN event.end.dateTime
                  ELSE IF event.end.date # Absent THEN event.end.date ELSE EmptyStr
        selfAttendees == { i \in 1..Len(event.attendees) : event.attendees[i].self }
        userAttendee == IF selfAttendees = {} THEN "undefined"
                        ELSE event.attendees[CHOOSE i \in selfAttendees :
                                               \A j \in selfAttendees : i <= j].responseStatus
        startTs == ParseGoogleDate(startStr, isAllDay)
        endTs == ParseGoogleDate(endStr, isAllDay)
        isTimeSpan == isAllDay /\ Ge(GetDaysDifference(startTs, endTs), 2)
    IN  [id |-> CompositeId(accountId, event.id),
         accountId |-> accountId,
         title |-> IF event.summary = Absent \/ event.summary = Str("")
                   THEN "(No title)" ELSE event.summary.text,
         allDay |-> isAllDay,
         startTs |-> startTs,
         endTs |-> endTs,
         rsvpStatus |-> userAttendee,
         isTimeSpan |-> isTimeSpan]

\* fetchEventsForAccount: the normalized items of all pages, in the
\* provider's order
FetchEventsForAccount(items, accountId) ==
    [i \in 1..Len(items) |-> NormalizeEvent(items[i], accountId)]

\* the comparator (a, b) => a.startTs - b.startTs as sort uses it: its sign,
\* and +0 where the difference is NaN
CompareStartTs(a, b) ==
    IF IsNaN(a.startTs) \/ IsNaN(b.startTs) THEN 0 ELSE Sign(a.startTs - b.startTs)

RECURSIVE InsertByStartTs(_, _)
\* insert item behind the events the comparator does not put after it
InsertByStartTs(sorted, item) ==
    IF sorted = << >> THEN << item >>
    ELSE IF CompareStartTs(sorted[Len(sorted)], item) <= 0
         THEN Append(sorted, item)
         ELSE Append(InsertByStartTs(SubSeq(sorted, 1, Len(sorted) - 1), item),
                     sorted[Len(sorted)])

RECURSIVE SortByStartTs(_)
\* allEvents.sort((a, b) => a.startTs - b.startTs), a stable sort
SortByStartTs(items) ==
    IF items = << >> THEN << >>
    ELSE InsertByStartTs(SortByStartTs(SubSeq(items, 1, Len(items) - 1)), items[Len(items)])

\* results.flat() of the accounts that had a token, work first
FlatResults(srv, tokens) ==
    (IF tokens.work THEN FetchEventsForAccount(srv.work, "work") ELSE << >>)
    \o (IF tokens.private THEN FetchEventsForAccount(srv.private, "private") ELSE << >>)

\* results.flat() sorted, for events whose startTs are all numbers
AllEvents(srv, tokens) == SortByStartTs(FlatResults(srv, tokens))

\* the orders allEvents.sort may leave: the stable sorted order, and any
\* order where a startTs is NaN (the comparator is then not consistent and
\* the order is left to the engine; V8 and the insertion above leave
\* [late, NaN, early] as it is)
SortOutcomes(items) ==
    IF \E i \in 1..Len(items) : IsNaN(items[i].startTs)
    THEN { [i \in 1..Len(items) |-> items[perm[i]]] :
             perm \in { f \in [1..Len(items) -> 1..Len(items)] :
                          \A i, j \in 1..Len(items) : f[i] = f[j] => i = j } }
    ELSE { SortByStartTs(items) }

\* variant: the version of getEventsForDay that only tests the overlap
GetEventsForDay_OverlapOnly(evs, date) ==
    LET dayStart == StartOfDay(date * DayMs)
        dayEnd == EndOfDay(date * DayMs)
        Keep(event) == Lt(event.startTs, dayEnd) /\ Gt(event.endTs, dayStart)
    IN  SelectSeq(evs, Keep)

\* getEventsForDay(date), date given by its day index
GetEventsForDay(evs, date) ==
    LET dayStart == StartOfDay(date * DayMs)
        dayEnd == EndOfDay(date * DayMs)
        Keep(event) ==
            LET overlapsDay == Lt(event.startTs, dayEnd) /\ Gt(event.endTs, dayStart)
                notDeclined == event.rsvpStatus # "declined"
                notTimeSpan == ~event.isTimeSpan
            IN  overlapsDay /\ notDeclined /\ notTimeSpan
    IN  SelectSeq(evs, Keep)

\* variant: every all-day event goes to the span layer
GetTimeSpans_EveryAllDay(evs) ==
    LET Keep(event) == event.allDay /\ event.rsvpStatus # "declined"
    IN  SelectSeq(evs, Keep)

\* getTimeSpans()
GetTimeSpans(evs) ==
    LET Keep(event) ==
            LET notDeclined == event.rsvpStatus # "declined"
            IN  event.isTimeSpan /\ notDeclined
    IN  SelectSeq(evs, Keep)

\* TimeSpanLayer's startOfDay(new Date(span.startTs)) and
\* startOfDay(new Date(span.endTs)), as day indices
SpanDays(event) ==
    [startDay |-> StartOfDay(event.startTs) \div DayMs,
     endDay |-> StartOfDay(event.endTs) \div DayMs,
     allDay |-> event.allDay]

\* events drawn for the queries: most events on the provider's side, the days
\* asked for, and the shapes of the raw events
MaxItems == 2
QDays == 0..2
QTimes ==
    { [start |-> [dateTime |-> Absent, date |-> DateStr(0)],
       end |-> [dateTime |-> Absent, date |-> DateStr(1)]],
      [start |-> [dateTime |-> Absent, date |-> DateStr(0)],
       end |-> [dateTime |-> Absent, date |-> DateStr(2)]],
      [start |-> [dateTime |-> Absent, date |-> DateStr(1)],
       end |-> [dateTime |-> Absent, date |-> DateStr(4)]],
      [start |-> [dateTime |-> DateTimeStr(9 * 3600000), date |-> Absent],
       end |-> [dateTime |-> DateTimeStr(10 * 3600000 + 1800000), date |-> Absent]],
      [start |-> [dateTime |-> DateTimeStr(23 * 3600000), date |-> Absent],
       end |-> [dateTime |-> DateTimeStr(DayMs + 3600000), date |-> Absent]],
      [start |-> [dateTime |-> DateTimeStr(DayMs - 500), date |-> Absent],
       end |-> [dateTime |-> DateTimeStr(DayMs), date |-> Absent]],
      [start |-> [dateTime |-> DateTimeStr(DayMs), date |-> Absent],
       end |-> [dateTime |-> DateTimeStr(3 * DayMs), date |-> Absent]] }
QAttendees ==
    { << >>,
      << [self |-> TRUE, responseStatus |-> "declined"] >>,
      << [self |-> FALSE, responseStatus |-> "declined"],
         [self |-> TRUE, responseStatus |-> "accepted"] >> }

\* the provider's id of the i-th item of an account: "e", "ee", ...
ProviderId(i) == [j \in 1..i |-> "e"]

\* the items of one account with the shapes in shapes
Items(shapes) ==
    [i \in 1..Len(shapes) |->
        RawEvent(ProviderId(i), shapes[i].summary, shapes[i].time.start, shapes[i].time.end,
                 shapes[i].attendees)]

QShapeSeqs ==
    UNION { [1..n -> [account : AccountIds, summary : {Str("Meeting")}, time : QTimes,
                      attendees : QAttendees]] :
            n \in 0..MaxItems }

\* the provider's side with the events of shapes, each under its account
ServerOf(shapes) ==
    LET OfWork(sh) == sh.account = "work"
        OfPrivate(sh) == sh.account = "private"
    IN  [work |-> Items(SelectSeq(shapes, OfWork)),
         private |-> Items(SelectSeq(shapes, OfPrivate))]

QServers == { ServerOf(shapes) : shapes \in QShapeSeqs }

\* both accounts are connected and one fetch has resolved
QInit ==
    /\ server \in QServers
    /\ authState = [work |-> TRUE, private |-> TRUE]
    /\ hookMounted = TRUE
    /\ fetches = {}
    /\ events = AllEvents(server, authState)
    /\ loading = FALSE
    /\ error = "null"
    /\ nFetches = 1
    /\ newestStored = 1
    /\ failedFetches = {}
    /\ QIdle

\* CalendarGrid renders the DayColumn of a date with getEventsForDay(date)
RenderDayColumn ==
    /\ \E date \in QDays :
         /\ dayDate' = date
         /\ dayEvents' = GetEventsForDay(events, date)
    /\ queried' = queried \cup {"day"}
    /\ UNCHANGED << spanEvents, spanBars, evVars, gridVars, rtVars, segVars, laneVars, dcVars >>

\* CalendarGrid renders TimeSpanLayer with getTimeSpans() and the visible
\* range and zoom it starts with
RenderSpans ==
    /\ "spans" \notin queried
    /\ spanEvents' = GetTimeSpans(events)
    /\ spanBars' = VisibleTimeSpans([i \in 1..Len(spanEvents') |-> SpanDays(spanEvents'[i])],
                                    [start |-> 0, end |-> 30], InitialPxPerDay)
    /\ queried' = queried \cup {"spans"}
    /\ UNCHANGED << dayDate, dayEvents, evVars, gridVars, rtVars, segVars, laneVars, dcVars >>

QNext == RenderDayColumn \/ RenderSpans

InitQueries == GridInit /\ RtIdle /\ SegIdle /\ LaneIdle /\ QInit /\ DcIdle

SpecQueries == InitQueries /\ [][QNext]_vars

\* a timed raw event of day d from h1:00 to h2:00
TimedShape(d, h1, h2) ==
    [start |-> [dateTime |-> DateTimeStr(d * DayMs + h1 * 3600000), date |-> Absent],
     end |-> [dateTime |-> DateTimeStr(d * DayMs + h2 * 3600000), date |-> Absent]]

\* raw events the provider's JSON may hold besides the usual ones: start and
\* end without date and dateTime, an end without them, an end at the start
\* (timed and all-day), an end before the start, and a usual timed event
EvOddTimes ==
    { [start |-> [dateTime |-> Absent, date |-> Absent],
       end |-> [dateTime |-> Absent, date |-> Absent]],
      [start |-> [dateTime |-> DateTimeStr(10 * 3600000), date |-> Absent],
       end |-> [dateTime |-> Absent, date |-> Absent]],
      TimedShape(0, 10, 10),
      TimedShape(0, 10, 9),
      [start |-> [dateTime |-> Absent, date |-> DateStr(1)],
       end |-> [dateTime |-> Absent, date |-> DateStr(1)]],
      TimedShape(0, 11, 12) }

\* the work account holds a timed event of day 1, the private account an
\* odd event, with or without a summary, and then a timed event of day 0
EvOddShapeSeqs ==
    { << [account |-> "work", summary |-> Str("Meeting"), time |-> TimedShape(1, 9, 10),
          attendees |-> << >>],
         [account |-> "private", summary |-> summary, time |-> time, attendees |-> << >>],
         [account |-> "private", summary |-> Str("Meeting"), time |-> TimedShape(0, 9, 10),
          attendees |-> << >>] >> :
      summary \in { Str("Meeting"), Absent }, time \in EvOddTimes }

\* the provider's side while fetches are followed: one timed event of the
\* work account and one all-day event of the private account, or the events
\* of EvOddShapeSeqs
EvServers ==
    { ServerOf(shapes) : shapes \in
        { q \in QShapeSeqs :
            /\ Len(q) = 2
            /\ q[1].account = "work" /\ q[1].time.start.date = Absent
            /\ q[2].account = "private" /\ q[2].time.start.dateTime = Absent
            /\ q[1].attendees = << >> /\ q[2].attendees = << >> }
        \cup EvOddShapeSeqs }

\* useState(loadAuthState): the tokens found in localStorage
EvInit ==
    /\ server \in EvServers
    /\ authState \in [AccountIds -> BOOLEAN]
    /\ hookMounted = FALSE
    /\ fetches = {}
    /\ events = << >>
    /\ loading = FALSE
    /\ error = "null"
    /\ nFetches = 0
    /\ newestStored = 0
    /\ failedFetches = {}

\* fetchEvents() up to await Promise.all, with the tokens getToken gives
FetchEvents(tokens) ==
    /\ nFetches' = nFetches + 1
    /\ IF ~tokens.work /\ ~tokens.private
       THEN /\ events' = << >>
            /\ newestStored' = nFetches + 1
            /\ UNCHANGED << loading, error, fetches >>
       ELSE /\ loading' = TRUE
            /\ error' = "null"
            /\ fetches' = fetches \cup { [id |-> nFetches + 1, tokens |-> tokens] }
            /\ UNCHANGED << events, newestStored >>

\* the effects run after the first render: "Fetch on mount"
MountHooks ==
    /\ ~hookMounted
    /\ hookMounted' = TRUE
    /\ FetchEvents(authState)
    /\ UNCHANGED << server, authState, failedFetches,
                    gridVars, rtVars, segVars, laneVars, qVars, dcVars >>

\* handleSuccess after connect(accountId): the token is stored, getToken and
\* fetchEvents change, and the effect fetches again
Connect(accountId) ==
    /\ hookMounted /\ nFetches < MaxFetches
    /\ authState' = [authState EXCEPT ![accountId] = TRUE]
    /\ FetchEvents(authState')
    /\ UNCHANGED << server, hookMounted, failedFetches,
                    gridVars, rtVars, segVars, laneVars, qVars, dcVars >>

\* disconnect(accountId), and the effect fetches again
Disconnect(accountId) ==
    /\ hookMounted /\ nFetches < MaxFetches
    /\ authState[accountId]
    /\ authState' = [authState EXCEPT ![accountId] = FALSE]
    /\ FetchEvents(authState')
    /\ UNCHANGED << server, hookMounted, failedFetches,
                    gridVars, rtVars, segVars, laneVars, qVars, dcVars >>

\* the token of an account passes expiresAt less the 60 seconds of
\* isTokenValid: no state changes, so nothing renders and nothing is fetched
ExpireToken(accountId) ==
    /\ hookMounted
    /\ authState[accountId]
    /\ authState' = [authState EXCEPT ![accountId] = FALSE]
    /\ UNCHANGED << server, hookMounted, fetches, events, loading, error, nFetches,
                    newestStored, failedFetches,
                    gridVars, rtVars, segVars, laneVars, qVars, dcVars >>

\* refetch: the Refresh button (shown with a connected account, disabled
\* while loading) or the Retry button of the error banner
Refetch ==
    /\ hookMounted /\ nFetches < MaxFetches
    /\ \/ (authState.work \/ authState.private) /\ ~loading
       \/ error # "null"
    /\ FetchEvents(authState)
    /\ UNCHANGED << server, authState, hookMounted, failedFetches,
                    gridVars, rtVars, segVars, laneVars, qVars, dcVars >>

\* await Promise.all resolves: the merged events are stored
ResolveFetch(f) ==
    /\ f \in fetches
    /\ events' \in SortOutcomes(FlatResults(server, f.tokens))
    /\ loading' = FALSE
    /\ fetches' = fetches \ {f}
    /\ newestStored' = Max(newestStored, f.id)
    /\ UNCHANGED << server, authState, hookMounted, error, nFetches, failedFetches,
                    gridVars, rtVars, segVars, laneVars, qVars, dcVars >>

\* the accounts of a call whose fetchEventsForAccount may have returned when
\* a request of another account of the call fails
ResolvedBeforeFailure(tokens) ==
    { got \in [AccountIds -> BOOLEAN] :
        /\ \A a \in AccountIds : got[a] => tokens[a]
        /\ \E a \in AccountIds : tokens[a] /\ ~got[a] }

\* variant: the catch block stores what had been fetched before the failure
FailFetch_StoresPartial(f) ==
    /\ f \in fetches
    /\ \E got \in ResolvedBeforeFailure(f.tokens) : events' = AllEvents(server, got)
    /\ error' = "Calendar API error"
    /\ loading' = FALSE
    /\ fetches' = fetches \ {f}
    /\ failedFetches' = failedFetches \cup {f.id}
    /\ UNCHANGED << server, authState, hookMounted, nFetches, newestStored,
                    gridVars, rtVars, segVars, laneVars, qVars, dcVars >>

\* a request of the call fails (any page of any account of the call, with
\* the other account fetched or not): Promise.all rejects, catch and finally
FailFetch(f) ==
    /\ f \in fetches
    /\ \E got \in ResolvedBeforeFailure(f.tokens) : events' = events
    /\ error' = "Calendar API error"
    /\ loading' = FALSE
    /\ fetches' = fetches \ {f}
    /\ failedFetches' = failedFetches \cup {f.id}
    /\ UNCHANGED << server, authState, hookMounted, nFetches, newestStored,
                    gridVars, rtVars, segVars, laneVars, qVars, dcVars >>

EvNext ==
    \/ MountHooks
    \/ \E accountId \in AccountIds : Connect(accountId)
    \/ \E accountId \in AccountIds : Disconnect(accountId)
    \/ \E accountId \in AccountIds : ExpireToken(accountId)
    \/ Refetch
    \/ \E f \in fetches : ResolveFetch(f)
    \/ \E f \in fetches : FailFetch(f)

InitEvents == GridInit /\ RtIdle /\ SegIdle /\ LaneIdle /\ EvInit /\ QIdle /\ DcIdle

SpecEvents == InitEvents /\ [][EvNext]_vars

----------------------------------------------------------------------------
(* DayColumn: the timed events of one day *)

START_HOUR == 7
END_HOUR == 22
COMPACT_THRESHOLD == 80
MinuteMs == 60000

\* percentages of the time grid are kept in minutes of the visible hour
\* range: p percent is p * rangeMinutes / 100, so 100 percent is rangeMinutes
RangeMinutes(startHour, endHour) == (endHour - startHour) * 60
Percent(p) == (p * RangeMinutes(START_HOUR, END_HOUR)) \div 100

\* variant: the start of the hour range is not taken off
GetTimePosition_FromMidnight(timestamp, startHour, endHour) ==
    (timestamp % DayMs) \div MinuteMs

\* getTimePosition(timestamp, startHour, endHour), in minutes of the range
GetTimePosition(timestamp, startHour, endHour) ==
    LET totalMinutes == (timestamp % DayMs) \div MinuteMs
        startMinutes == startHour * 60
    IN  totalMinutes - startMinutes

\* differenceInMinutes(end, start): whole minutes, rounded towards zero
DifferenceInMinutes(endTs, startTs) ==
    IF endTs >= startTs THEN (endTs - startTs) \div MinuteMs
    ELSE -((startTs - endTs) \div MinuteMs)

\* getEventHeight(startTs, endTs, startHour, endHour), in minutes of the range
GetEventHeight(startTs, endTs, startHour, endHour) ==
    DifferenceInMinutes(endTs, startTs)

NoCard == [skipped |-> TRUE]

\* the callback of timedEvents.map for the k-th timed event: the card with
\* its top and height, or NoCard where the callback returns null
PositionedEvent(k, event, isCompact) ==
    LET top == GetTimePosition(event.startTs, START_HOUR, END_HOUR)
        height == GetEventHeight(event.startTs, event.endTs, START_HOUR, END_HOUR)
        actualTop == Max(0, top)
        aboveAdjusted == IF top < 0 THEN height + top ELSE height
        bottomPosition == actualTop + aboveAdjusted
        clipped == IF bottomPosition > Percent(100) THEN Percent(100) - actualTop
                   ELSE aboveAdjusted
        actualHeight == Max(clipped, Percent(2))
    IN  IF top >= Percent(100) \/ top + height <= 0 THEN NoCard
        ELSE [event |-> k, top |-> actualTop, height |-> actualHeight,
              isCompact |-> isCompact]

RECURSIVE PositionedEvents(_, _, _)
\* timedEvents.map(...) without the nulls, from the k-th timed event on
PositionedEvents(timedEvents, k, isCompact) ==
    IF k > Len(timedEvents) THEN << >>
    ELSE LET card == PositionedEvent(k, timedEvents[k], isCompact)
             rest == PositionedEvents(timedEvents, k + 1, isCompact)
         IN  IF card = NoCard THEN rest ELSE << card >> \o rest

\* const timedEvents = events.filter((e) => !e.allDay)
TimedEvents(evs) ==
    LET Timed(e) == ~e.allDay
    IN  SelectSeq(evs, Timed)

\* most events of a day drawn freely, and most copies of one event in a day
MaxDayEvents == 2
MaxDayCopies == 7

HourMs == 60 * MinuteMs
\* an event of day 0 from h1:m1 to h2:m2
DayEvent(h1, m1, h2, m2) ==
    [allDay |-> FALSE,
     startTs |-> h1 * HourMs + m1 * MinuteMs,
     endTs |-> h2 * HourMs + m2 * MinuteMs]

DShapes ==
    { DayEvent(9, 0, 10, 30), DayEvent(9, 0, 9, 10), DayEvent(21, 55, 22, 0),
      DayEvent(6, 0, 8, 0), DayEvent(6, 55, 7, 5), DayEvent(21, 0, 23, 30),
      DayEvent(10, 0, 10, 0), DayEvent(10, 0, 9, 0), DayEvent(5, 0, 6, 0),
      DayEvent(22, 30, 23, 0),
      [allDay |-> FALSE, startTs |-> 9 * HourMs + 30000, endTs |-> 9 * HourMs + 20 * MinuteMs],
      [allDay |-> TRUE, startTs |-> 0, endTs |-> DayMs],
      \* into day 1: 20:00 to 09:00, 23:00 to 01:00, 09:00 to 09:00; and
      \* 08:00 to 09:00 of day 1
      DayEvent(20, 0, 24 + 9, 0), DayEvent(23, 0, 24 + 1, 0), DayEvent(9, 0, 24 + 9, 0),
      DayEvent(24 + 8, 0, 24 + 9, 0) }

\* the days a column is rendered for
DcDates == {0, 1}

\* CalendarGrid hands a column the events of getEventsForDay(date)
DcInit ==
    /\ dcDate \in DcDates
    /\ dcEvents \in UNION { [1..n -> DShapes] : n \in 0..MaxDayEvents }
                    \cup { [i \in 1..n |-> DayEvent(9, 0, 10, 30)] : n \in 0..MaxDayCopies }
    /\ \A i \in 1..Len(dcEvents) :
          /\ Lt(dcEvents[i].startTs, EndOfDay(dcDate * DayMs))
          /\ Gt(dcEvents[i].endTs, StartOfDay(dcDate * DayMs))
    /\ dcPxPerDay \in { MinZoom, COMPACT_THRESHOLD - 1, COMPACT_THRESHOLD, InitialPxPerDay }
    /\ dcCards = << >>
    /\ dcMore = 0
    /\ dcRendered = FALSE

\* DayColumn renders: every timed event is positioned by its time at every
\* zoom, the cards are compact below the threshold, and no overflow indicator
\* is rendered
RenderDayContent ==
    /\ ~dcRendered
    /\ dcCards' = PositionedEvents(TimedEvents(dcEvents), 1, dcPxPerDay < COMPACT_THRESHOLD)
    /\ dcMore' = 0
    /\ dcRendered' = TRUE
    /\ UNCHANGED << dcDate, dcEvents, dcPxPerDay,
                    gridVars, rtVars, segVars, laneVars, evVars, qVars >>

\* the zoom changes and DayColumn renders again
RenderDayContentAtZoom ==
    /\ dcRendered
    /\ \E px \in { MinZoom, COMPACT_THRESHOLD - 1, COMPACT_THRESHOLD, InitialPxPerDay } :
         /\ px # dcPxPerDay
         /\ dcPxPerDay' = px
         /\ dcCards' = PositionedEvents(TimedEvents(dcEvents), 1, px < COMPACT_THRESHOLD)
    /\ dcMore' = 0
    /\ UNCHANGED << dcDate, dcEvents, dcRendered,
                    gridVars, rtVars, segVars, laneVars, evVars, qVars >>

DcNext == RenderDayContent \/ RenderDayContentAtZoom

InitDay == GridInit /\ RtIdle /\ SegIdle /\ LaneIdle /\ EvIdle /\ QIdle /\ DcInit

SpecDay == InitDay /\ [][DcNext]_vars

----------------------------------------------------------------------------
(* Properties *)

Idle == rafQueue = << >> /\ frameLeft = 0

\* the whole pixels the container may hold after the fraction v is assigned
\* at zoom px and width w
Held(v, px, w) == { ClampScroll(x, px, w) : x \in StoredPixels(v) }

\* C1: after a single preset or slider change from oldPxPerDay to
\* newPxPerDay, with width W > 0 and scroll offset S read before the change,
\* once the deferred correction has run the scroll offset is
\* max(0, ((S + W/2) / oldPxPerDay) * newPxPerDay - W/2), and the view was not
\* re-positioned on today.  Stated here with the allowance that the container
\* stores a whole pixel inside its scrollable range.
C1_PresetKeepsCentre ==
    ( /\ lastEv.kind \in {"preset", "slider"}
      /\ lastEv.arg # lastEv.p
      /\ lastEv.quiet
      /\ lastEv.w > 0
      /\ Idle )
    => /\ scrollLeft \in Held(AnchoredScrollLeft(CenterDayIndex(lastEv.s, lastEv.w, lastEv.p),
                                                 lastEv.arg, lastEv.w),
                              lastEv.arg, lastEv.w)
       /\ lastWrite.by # "init" \/ initWrites = 1

\* C2: centre anchoring holds for any sequence of zoom changes of both kinds,
\* also when a change arrives while the correction of an earlier change is
\* still pending: once every deferred callback has run, the day index at the
\* viewport centre is the one that was there before the first change, within
\* 1 day, for the pxPerDay in effect (the offset being kept inside the
\* container's range, in particular clamped at 0).  Stated here for the
\* sequences whose changes all zoom in, where the content never shrinks.
C2_BurstKeepsCentre ==
    (anchor # NULL /\ anchor.zoomIn /\ width > 0 /\ Idle /\ mounted)
    => \E e \in Held(AnchoredScrollLeft(anchor, pxPerDay, width), pxPerDay, width) :
          Abs(scrollLeft - e) <= pxPerDay

\* C4: pxPerDay always lies in [minZoom, maxZoom] = [30, 250]; it is never
\* zero or negative.
C4_ZoomInRange == pxPerDay >= MinZoom /\ pxPerDay <= MaxZoom /\ pxPerDay > 0

\* a wheel step at the lower limit was clamped
C4_Witness ==
    /\ lastEv.kind = "wheel" /\ lastEv.arg > 0 /\ lastEv.arg2 = 0
    /\ lastEv.p = MinZoom /\ pxPerDay = MinZoom

\* Math.round(p * 0.02): the integer nearest to p/50, halves rounded up
RoundedStep(p) == CHOOSE r \in 0..MaxZoom : 100 * r - 50 <= 2 * p /\ 2 * p < 100 * r + 50

ClampZoom(x) == IF x < MinZoom THEN MinZoom ELSE IF x > MaxZoom THEN MaxZoom ELSE x

\* C5: a vertical wheel event (|deltaY| > |deltaX|) at zoom p gives
\* clamp(p - step) for deltaY > 0 and clamp(p + step) for deltaY < 0 with
\* step = max(1, round(p * 0.02)); any other wheel event leaves pxPerDay and
\* the pending scroll adjustment unchanged.
C5_WheelStep ==
    [][ (nEvents' = nEvents + 1 /\ lastEv'.kind = "wheel")
        => LET dy == lastEv'.arg
               dx == lastEv'.arg2
               step == IF RoundedStep(pxPerDay) >= 1 THEN RoundedStep(pxPerDay) ELSE 1
           IN  IF Abs(dy) > Abs(dx)
               THEN pxPerDay' = ClampZoom(IF dy > 0 THEN pxPerDay - step ELSE pxPerDay + step)
               ELSE pxPerDay' = pxPerDay /\ pending' = pending ]_vars

\* a vertical wheel event has zoomed out, and a tie of |deltaY| and |deltaX|
\* would be the other case
C5_Witness ==
    /\ lastEv.kind = "wheel" /\ Abs(lastEv.arg) > Abs(lastEv.arg2) /\ lastEv.arg > 0
    /\ pxPerDay < lastEv.p /\ lastEv.p - pxPerDay >= 2

\* C6: the visible range computed by handleScroll satisfies
\* 0 <= start <= end <= N for every zoom, width and scroll offset the
\* container can hold.
C6_VisibleRangeInBounds ==
    /\ 0 <= visibleRange.start
    /\ visibleRange.start <= visibleRange.end
    /\ visibleRange.end <= TimelineLength

\* handleScroll has run at the right end of the timeline, with days cut off on the left
C6_Witness ==
    /\ mounted /\ Idle /\ ~scrollDirty
    /\ scrollLeft = MaxScroll(pxPerDay, width) /\ scrollLeft > 0
    /\ visibleRange.start > 0 /\ visibleRange.end = TimelineLength

\* twice the days kept left of today at zoom p
TwiceDaysLeftOfToday(p) == IF p >= 150 THEN 3 ELSE IF p >= 60 THEN 1 ELSE 10

C8_NoWriteAtZeroWidth == lastWrite.by # "none" => lastWrite.w > 0

CoversTimeline(segs, kind, cal, len) ==
    /\ Len(segs) >= 1
    /\ segs[1].startIndex = 0
    /\ segs[Len(segs)].endIndex = len - 1
    /\ \A i \in 1..Len(segs) :
         /\ segs[i].startIndex <= segs[i].endIndex
         /\ i > 1 => segs[i].startIndex = segs[i - 1].endIndex + 1
         /\ \A j \in segs[i].startIndex..segs[i].endIndex : GroupKey(kind, cal, j) = segs[i].key
    /\ \A i, j \in 1..Len(segs) :
         i < j => segs[i].endIndex < segs[j].startIndex

\* C9: for every non-empty timeline the month segments, and the week
\* segments, are ordered, pairwise non-overlapping and contiguous from index
\* 0 to N - 1, each with startIndex <= endIndex and one grouping key.
C9_SegmentsCoverTimeline ==
    segDone => CoversTimeline(segments, segKind, segCal, segLen)

\* the week pass was made over the full timeline, across a new year
C9_Witness ==
    /\ segDone /\ segKind = "week" /\ segLen = TimelineLength
    /\ Len(segments) >= 17
    /\ \E i \in 2..Len(segments) : segments[i].key = 1 /\ segments[i - 1].key >= 52

\* C10: after lane assignment no two time spans with the same rowIndex have
\* overlapping closed intervals [originalStartIndex, originalEndIndex].
C10_NoOverlapInRow ==
    tsRendered
    => \A i, j \in 1..Len(visibleTimeSpans) :
          (i # j /\ visibleTimeSpans[i].rowIndex = visibleTimeSpans[j].rowIndex)
          => \/ visibleTimeSpans[i].originalEndIndex < visibleTimeSpans[j].originalStartIndex
             \/ visibleTimeSpans[j].originalEndIndex < visibleTimeSpans[i].originalStartIndex

\* three spans were laid out, two of them one after the other in row 0 and
\* one, overlapping the first, in row 1
C10_Witness ==
    /\ tsRendered /\ Len(visibleTimeSpans) = 3
    /\ visibleTimeSpans[1].rowIndex = 0
    /\ visibleTimeSpans[2].rowIndex = 1
    /\ visibleTimeSpans[3].rowIndex = 0
    /\ visibleTimeSpans[2].originalStartIndex <= visibleTimeSpans[1].originalEndIndex

\* C11: lane packing is greedy first-fit in ascending start order: the spans
\* are laid out by ascending start, each span's row holds no earlier span
\* that overlaps it, and every lower row holds an earlier span that does; the
\* spans [0,5], [2,8], [6,10] get rows 0, 1, 0.
C11_GreedyFirstFit ==
    tsRendered
    => /\ \A i, j \in 1..Len(visibleTimeSpans) :
            i < j => visibleTimeSpans[i].originalStartIndex
                       <= visibleTimeSpans[j].originalStartIndex
       /\ \A i \in 1..Len(visibleTimeSpans) :
            LET s == visibleTimeSpans[i]
                Clash(e) == ~(\/ s.originalStartIndex > e.originalEndIndex
                              \/ s.originalEndIndex < e.originalStartIndex)
            IN  /\ \A j \in 1..(i - 1) :
                      visibleTimeSpans[j].rowIndex = s.rowIndex => ~Clash(visibleTimeSpans[j])
                /\ \A q \in 0..(s.rowIndex - 1) :
                      \E j \in 1..(i - 1) :
                         visibleTimeSpans[j].rowIndex = q /\ Clash(visibleTimeSpans[j])
       /\ (/\ timeSpans = << [startDay |-> 0, endDay |-> 6, allDay |-> TRUE],
                              [startDay |-> 2, endDay |-> 9, allDay |-> TRUE],
                              [startDay |-> 6, endDay |-> 11, allDay |-> TRUE] >>
           /\ tsVisibleRange = [start |-> 0, end |-> 30])
          => /\ MaxRows(visibleTimeSpans) = 2
             /\ << visibleTimeSpans[1].rowIndex, visibleTimeSpans[2].rowIndex,
                    visibleTimeSpans[3].rowIndex >> = << 0, 1, 0 >>

\* the spans [0,5], [2,8], [6,10] were laid out
C11_Witness ==
    /\ tsRendered
    /\ Len(visibleTimeSpans) = 3
    /\ << visibleTimeSpans[1].originalStartIndex, visibleTimeSpans[1].originalEndIndex >> = << 0, 5 >>
    /\ << visibleTimeSpans[2].originalStartIndex, visibleTimeSpans[2].originalEndIndex >> = << 2, 8 >>
    /\ << visibleTimeSpans[3].originalStartIndex, visibleTimeSpans[3].originalEndIndex >> = << 6, 10 >>

\* C12: lane assignment is stable under scrolling: a span that is rendered
\* before and after the visible range changes keeps its rowIndex.
C12_RowStableUnderScroll ==
    [][ tsRendered
        => \A i \in 1..Len(visibleTimeSpans) : \A j \in 1..Len(visibleTimeSpans') :
              visibleTimeSpans[i].span = visibleTimeSpans'[j].span
              => visibleTimeSpans[i].rowIndex = visibleTimeSpans'[j].rowIndex ]_vars

\* C13: a rendered span is clipped to the visible sub-interval: with [a, b]
\* the intersection of its day interval, the visible range and the timeline
\* [0, N-1], left = a*pxPerDay and width = (b - a + 1)*pxPerDay; the width is
\* positive and the bar ends at or before the end of the last timeline day.
C13_ClippedToVisible ==
    tsRendered
    => \A i \in 1..Len(visibleTimeSpans) :
          LET v == visibleTimeSpans[i]
              span == timeSpans[v.span]
              a == Max(Max(span.startDay, tsVisibleRange.start), 0)
              b == Min(Min(span.endDay - 1, tsVisibleRange.end), TimelineLength - 1)
          IN  /\ v.left = a * tsPxPerDay
              /\ v.width = (b - a + 1) * tsPxPerDay
              /\ v.width > 0
              /\ v.left + v.width <= TimelineLength * tsPxPerDay

\* a span that starts inside the visible range and ends behind the timeline
\* was rendered while the visible range ends at dates.length
C13_Witness ==
    /\ tsRendered
    /\ tsVisibleRange.end = TimelineLength
    /\ \E i \in 1..Len(visibleTimeSpans) :
          /\ timeSpans[visibleTimeSpans[i].span].endDay > TimelineLength
          /\ timeSpans[visibleTimeSpans[i].span].startDay > tsVisibleRange.start
          /\ visibleTimeSpans[i].endIndex = TimelineLength - 1

\* the raw event of a stored event
RawOf(event) ==
    LET items == server[event.accountId]
    IN  items[CHOOSE i \in 1..Len(items) :
                 CompositeId(event.accountId, items[i].id) = event.id]

\* C14: an all-day event is a time span exactly when its end date is two or
\* more days after its start date, and its bar covers the days from the start
\* day to the day before the exclusive end day; an event from day 0 to day 2
\* is a time span that covers exactly day 0 and day 1.
C14_AllDaySpanDays ==
    /\ \A i \in 1..Len(events) :
          events[i].allDay
          => (events[i].isTimeSpan
              <=> RawOf(events[i]).end.date.day - RawOf(events[i]).start.date.day >= 2)
    /\ "spans" \in queried
       => \A i \in 1..Len(spanBars) :
             LET raw == RawOf(spanEvents[spanBars[i].span])
             IN  /\ spanBars[i].originalStartIndex = raw.start.date.day
                 /\ spanBars[i].originalEndIndex = raw.end.date.day - 1
                 /\ (raw.start.date.day = 0 /\ raw.end.date.day = 2)
                    => << spanBars[i].startIndex, spanBars[i].endIndex >> = << 0, 1 >>

\* the all-day event from day 0 to day 2 was rendered as a bar, and an
\* all-day event of one day is stored
C14_Witness ==
    /\ "spans" \in queried
    /\ \E i \in 1..Len(spanBars) :
          /\ RawOf(spanEvents[spanBars[i].span]).start.date = DateStr(0)
          /\ RawOf(spanEvents[spanBars[i].span]).end.date = DateStr(2)
    /\ \E i \in 1..Len(events) : events[i].allDay /\ ~events[i].isTimeSpan

\* C15: no event with rsvpStatus declined is returned by getEventsForDay or
\* by getTimeSpans.
C15_NoDeclinedEvents ==
    /\ \A i \in 1..Len(dayEvents) : dayEvents[i].rsvpStatus # "declined"
    /\ \A i \in 1..Len(spanEvents) : spanEvents[i].rsvpStatus # "declined"

\* a declined event that overlaps the day asked for and a declined time span
\* are stored, and both queries have been made
C15_Witness ==
    /\ queried = {"day", "spans"}
    /\ \E i \in 1..Len(events) :
          /\ events[i].rsvpStatus = "declined" /\ ~events[i].isTimeSpan
          /\ events[i].startTs < EndOfDay(dayDate * DayMs)
          /\ events[i].endTs > StartOfDay(dayDate * DayMs)
    /\ \E i \in 1..Len(events) : events[i].rsvpStatus = "declined" /\ events[i].isTimeSpan

\* C16: no time span is returned by getEventsForDay, only time spans are
\* returned by getTimeSpans, and every stored event that is neither declined
\* nor a time span and overlaps the day is returned by getEventsForDay.
C16_DisjointLayers ==
    /\ \A i \in 1..Len(dayEvents) : ~dayEvents[i].isTimeSpan
    /\ \A i \in 1..Len(spanEvents) : spanEvents[i].isTimeSpan
    /\ "day" \in queried
       => \A i \in 1..Len(events) :
             (/\ events[i].rsvpStatus # "declined"
              /\ ~events[i].isTimeSpan
              /\ events[i].startTs < (dayDate + 1) * DayMs - 1
              /\ events[i].endTs > dayDate * DayMs)
             => \E j \in 1..Len(dayEvents) : dayEvents[j] = events[i]

\* a time span that overlaps the day asked for is stored next to an event
\* the day query returned, and the span query returned the span
C16_Witness ==
    /\ queried = {"day", "spans"}
    /\ Len(dayEvents) > 0
    /\ \E i \in 1..Len(spanEvents) :
          /\ spanEvents[i].startTs <= dayDate * DayMs
          /\ spanEvents[i].endTs > dayDate * DayMs

\* the timed events of the rendered day column; tops and heights are in
\* minutes of the 900-minute range, so p percent is 9 * p
DcTimed == TimedEvents(dcEvents)

\* the timed event lies inside 07:00-22:00 of day 0
InsideHours(e) ==
    /\ e.startTs >= START_HOUR * HourMs
    /\ e.endTs <= END_HOUR * HourMs
    /\ e.startTs <= e.endTs

\* C17 as stated: a timed event inside 07:00-22:00 is rendered with top =
\* (minutes from 07:00 to its start / 900) * 100 percent and height =
\* (duration in minutes / 900) * 100 percent.
C17_PositionByMinutes ==
    dcRendered
    => \A i \in 1..Len(dcCards) :
          LET e == DcTimed[dcCards[i].event]
          IN  InsideHours(e)
              => /\ dcCards[i].top = e.startTs \div MinuteMs - 7 * 60
                 /\ dcCards[i].height = (e.endTs - e.startTs) \div MinuteMs

\* C17 amended: as stated, but the height is at least 2 percent; the event
\* 09:00-10:30 gets top 120/900 and height 90/900 of the grid.
C17_PositionWithFloor ==
    dcRendered
    => /\ \A i \in 1..Len(DcTimed) :
            InsideHours(DcTimed[i]) => \E j \in 1..Len(dcCards) : dcCards[j].event = i
       /\ \A i \in 1..Len(dcCards) :
            LET e == DcTimed[dcCards[i].event]
            IN  InsideHours(e)
                => /\ dcCards[i].top = e.startTs \div MinuteMs - 7 * 60
                   /\ dcCards[i].height * 100
                        = Max(2 * 900, 100 * ((e.endTs - e.startTs) \div MinuteMs))
                   /\ e = DayEvent(9, 0, 10, 30)
                      => dcCards[i].top = 120 /\ dcCards[i].height = 90

\* the event 09:00-10:30 and an event of ten minutes were rendered
C17_Witness ==
    /\ dcRendered
    /\ \E i \in 1..Len(dcCards) : DcTimed[dcCards[i].event] = DayEvent(9, 0, 10, 30)
    /\ \E i \in 1..Len(dcCards) : DcTimed[dcCards[i].event] = DayEvent(9, 0, 9, 10)

\* C18: every rendered timed event has top >= 0 percent, height >= 2
\* percent and top + height <= 100 percent.
C18_WithinGrid ==
    dcRendered
    => \A i \in 1..Len(dcCards) :
          /\ dcCards[i].top >= 0
          /\ dcCards[i].height * 100 >= 2 * 900
          /\ dcCards[i].top + dcCards[i].height <= 900

\* C19: in compact mode (pxPerDay < 80) a day with n timed events renders
\* min(n, 5) chips in the order given and the indicator "+N more" with
\* N = n - 5 exactly when n > 5; in expanded mode no cap applies; the mode
\* depends only on pxPerDay.
C19_CompactCap ==
    dcRendered
    => /\ \A i \in 1..Len(dcCards) : dcCards[i].isCompact <=> dcPxPerDay < 80
       /\ dcPxPerDay < 80
          => /\ Len(dcCards) = Min(Len(DcTimed), 5)
             /\ \A i \in 1..Len(dcCards) : dcCards[i].event = i
             /\ dcMore = IF Len(DcTimed) > 5 THEN Len(DcTimed) - 5 ELSE 0
       /\ dcPxPerDay >= 80 => dcMore = 0

\* C20: a fetch that was superseded never overwrites the result of a later
\* fetch: when a call of fetchEvents resolves that started before the call
\* whose result is stored, the stored events stay as they are.
C20_NoStaleOverwrite ==
    [][ \A f \in fetches :
          (f \notin fetches' /\ f.id < newestStored) => events' = events ]_vars

\* C21: the step in which a call of fetchEvents fails leaves the stored events
\* as they were (nothing fetched by that call is stored), sets the error state
\* to a message and sets loading to false.
C21_FailureKeepsEvents ==
    [][ \A f \in fetches :
          (f.id \in failedFetches' /\ f.id \notin failedFetches)
              => /\ events' = events
                 /\ error' # "null"
                 /\ loading' = FALSE ]_vars

\* with both accounts connected a call has failed while the events of an
\* earlier call were stored
C21_Witness ==
    /\ failedFetches # {}
    /\ events # << >>
    /\ error # "null"
    /\ ~loading
    /\ authState.work /\ authState.private

\* the raw event has a date or a dateTime in its start and in its end
HasStartAndEnd(raw) ==
    /\ raw.start.dateTime # Absent \/ raw.start.date # Absent
    /\ raw.end.dateTime # Absent \/ raw.end.date # Absent

\* C22: no stored event comes from a raw event that lacks both date and
\* dateTime in its start or in its end, and a stored event whose raw event has
\* no summary has the placeholder title.
C22_MalformedDropped ==
    \A i \in 1..Len(events) :
        /\ HasStartAndEnd(RawOf(events[i]))
        /\ RawOf(events[i]).summary = Absent => events[i].title = "(No title)"

\* C23: every stored event has endTs > startTs.
C23_EndAfterStart ==
    \A i \in 1..Len(events) : Gt(events[i].endTs, events[i].startTs)

\* C24: no stored event starts after an event stored behind it, and no two
\* stored events have the same id.
C24_SortedDistinctIds ==
    \A i, j \in 1..Len(events) :
        i < j => /\ ~Gt(events[i].startTs, events[j].startTs)
                 /\ events[i].id # events[j].id

\* every handler has run: no callback and no scroll event is outstanding
Settled == Idle /\ ~scrollDirty

\* C25: once every handler has run, the visible range of the mounted grid is
\* the one handleScroll computes from the current scroll offset, container
\* width and pxPerDay.
C25_VisibleRangeCurrent ==
    (mounted /\ Settled) => visibleRange = ComputeVisibleRange(scrollLeft, width, pxPerDay)

\* C26: in expanded mode, a timed event of whole minutes with its end after
\* its start whose interval meets the 07:00-22:00 window of the column's day
\* has a card with top = max(0, start offset in that window) and height =
\* max(2%, min(100%, end offset in that window) - top), and an event that
\* does not meet the window has no card.
C26_ClippedToDayWindow ==
    (dcRendered /\ dcPxPerDay >= COMPACT_THRESHOLD)
    => \A k \in 1..Len(DcTimed) :
          LET e == DcTimed[k]
              windowStart == dcDate * DayMs + START_HOUR * HourMs
              windowEnd == dcDate * DayMs + END_HOUR * HourMs
              top == Max(0, Floor(e.startTs - windowStart, MinuteMs))
              bottom == Min(Percent(100), Floor(e.endTs - windowStart, MinuteMs))
              cards == { i \in 1..Len(dcCards) : dcCards[i].event = k }
          IN  (e.endTs > e.startTs /\ e.startTs % MinuteMs = 0 /\ e.endTs % MinuteMs = 0)
              => IF e.startTs < windowEnd /\ e.endTs > windowStart
                 THEN \E i \in cards :
                         /\ dcCards[i].top = top
                         /\ dcCards[i].height = Max(Percent(2), bottom - top)
                 ELSE cards = {}

\* the first and the last day a span covers (the end day of an all-day span
\* is exclusive)
FirstDay(span) == span.startDay
LastDay(span) == IF span.allDay THEN span.endDay - 1 ELSE span.endDay

\* C27: every time span handed to TimeSpanLayer whose days meet the timeline
\* and the visible range has a bar, also when it starts before the first
\* day of the timeline and ends after the last one.
C27_EverySpanRendered ==
    tsRendered
    => \A k \in 1..Len(timeSpans) :
          (/\ LastDay(timeSpans[k]) >= Max(0, tsVisibleRange.start)
           /\ FirstDay(timeSpans[k]) < Min(TimelineLength, tsVisibleRange.end))
          => \E i \in 1..Len(visibleTimeSpans) : visibleTimeSpans[i].span = k

\* C28: when no render is pending, the row count handed to the day columns
\* is the number of lanes the rendered span bars use (0 without bars), and
\* the day header's top padding reaches the bottom edge of every span bar.
C28_RowsMatchLanes ==
    (tsRendered /\ rowsQueued = -1)
    => /\ maxTimeSpanRows
            = Cardinality({ visibleTimeSpans[i].rowIndex : i \in 1..Len(visibleTimeSpans) })
       /\ \A i \in 1..Len(visibleTimeSpans) :
             HeaderPaddingTop(maxTimeSpanRows)
                 >= BarTop(visibleTimeSpans[i].rowIndex) + ROW_HEIGHT
       /\ maxTimeSpanRows > 0
          => HeaderPaddingTop(maxTimeSpanRows) >= 40 + (maxTimeSpanRows - 1) * 22 + 20

\* the bars use two lanes or more and the row count has been handed on
C28_Witness ==
    /\ tsRendered /\ rowsQueued = -1
    /\ maxTimeSpanRows >= 2
    /\ \E i \in 1..Len(visibleTimeSpans) : visibleTimeSpans[i].rowIndex = 1

RECURSIVE CallbacksDue(_)
\* the requestAnimationFrame callbacks still to run for the queued chains: a
\* queued callback and the nested ones it has yet to request
CallbacksDue(queue) ==
    IF queue = << >> THEN 0 ELSE Head(queue).left + 1 + CallbacksDue(Tail(queue))

\* the chain the claim gives each kind of event
ChainLength(kind) ==
    IF kind = "mount" THEN 1
    ELSE IF kind \in {"preset", "slider"} THEN 2
    ELSE IF kind = "wheel" THEN 3
    ELSE 0

\* the callbacks a step adds to those due before it (none are due before a
\* mount, and an unmount drops them)
CallbacksAdded ==
    CallbacksDue(rafQueue') - (IF mounted /\ mounted' THEN CallbacksDue(rafQueue) ELSE 0)

C30_EmptyWithoutTokens ==
    (hookMounted /\ ~authState.work /\ ~authState.private /\ fetches = {})
    => events = << >>

====
